---- MODULE Spec2Model ----
(***************************************************************************)
(* Real-time collaboration layer of the document platform                  *)
(* (src/src/utils/collaboration.js): the operational-transform helpers,    *)
(* the module-level session maps, the socket event handlers and the        *)
(* debounced reconciliation pass (processPendingOperations).               *)
(*                                                                         *)
(* Strings are sequences of one-character strings.  A JavaScript Map is a  *)
(* function whose DOMAIN is the set of keys present.                       *)
(***************************************************************************)
EXTENDS Integers, Sequences, FiniteSets, TLC

VARIABLES
    ot,                  \* harness of the pure OT functions: inputs and results
    connState,           \* per socket: "new", "open" (after 'connection'), "closed"
    activeConnections,   \* Map userId -> socket
    currentDocument,     \* socket.currentDocument
    documentPermission,  \* socket.documentPermission
    rooms,               \* socket.io rooms of each socket (document:<id>)
    joinPending,         \* join-document handlers awaiting checkDocumentAccess
    documentSessions,    \* Map documentId -> Set of userIds
    userCursors,         \* Map documentId -> Map(userId -> position)
    pendingOperations,   \* Map documentId -> Array of operations
    opReq,               \* document-operation events received so far, by id
    pass,                \* timer callback / processPendingOperations run, by id
    dbContent,           \* persisted Document.content, by document
    dbApplied,           \* history: how often each operation went into dbContent
    visited,             \* history: operations some pass's loop has handled
    nUpdated,            \* history: number of document-updated broadcasts
    emitted              \* events sent by the last step

vars == <<ot, connState, activeConnections, currentDocument, documentPermission,
          rooms, joinPending, documentSessions, userCursors, pendingOperations,
          opReq, pass, dbContent, dbApplied, visited, nUpdated, emitted>>

sessionVars == <<connState, activeConnections, currentDocument, documentPermission,
                 rooms, joinPending, documentSessions, userCursors>>

reconVars == <<pendingOperations, opReq, pass, dbContent, dbApplied, visited,
               nUpdated>>

-----------------------------------------------------------------------------
(* Bounds of the model *)

MaxBaseLen == 3     \* longest base content of the OT harness
MaxPos == 3         \* largest position a client sends
MaxDelLen == 5      \* largest length / oldLength a client sends
MaxOps == 2         \* document-operation events per run of the reconciliation model

-----------------------------------------------------------------------------
(* JavaScript helpers *)

Min(a, b) == IF a < b THEN a ELSE b

Max(a, b) == IF a > b THEN a ELSE b

\* Relative index of String.prototype.slice: negative counts from the end,
\* everything is clamped to 0..len.
SliceIndex(i, len) == IF i < 0 THEN Max(len + i, 0) ELSE Min(i, len)

\* content.slice(start, end)
Slice(s, start, end) ==
    LET from == SliceIndex(start, Len(s))
        to   == SliceIndex(end, Len(s))
    IN IF from >= to THEN <<>> ELSE SubSeq(s, from + 1, to)

\* content.slice(start)
SliceFrom(s, start) == Slice(s, start, Len(s))

\* A delete that empties the whole map.
MapClear(m, k) == [x \in {} |-> 0]

\* Map helpers
Has(m, k) == k \in DOMAIN m

MapSet(m, k, v) == [x \in DOMAIN m \cup {k} |-> IF x = k THEN v ELSE m[x]]

MapDelete(m, k) == [x \in DOMAIN m \ {k} |-> m[x]]

EmptyMap == [x \in {} |-> 0]

-----------------------------------------------------------------------------
(* Operations and the OperationalTransform class *)

\* The value null returned for a conflicting operation.
Null == [type |-> "null", position |-> 0, content |-> <<>>, length |-> 0,
         oldLength |-> 0, userId |-> "none", id |-> 0]

\* What op1.content.length raises when an insert carries no content field.
Thrown == [type |-> "TypeError", position |-> 0, content |-> <<>>, length |-> 0,
           oldLength |-> 0, userId |-> "none", id |-> 0]

\* The content of an insert sent without a content field (undefined).
NoContent == <<"undefined">>

\* String concatenation of operation.content: undefined reads "undefined".
ContentText(content) ==
    IF content = NoContent
    THEN <<"u", "n", "d", "e", "f", "i", "n", "e", "d">>
    ELSE content

Insert(p, c) == [type |-> "insert", position |-> p, content |-> c, length |-> 0,
                 oldLength |-> 0, userId |-> "none", id |-> 0]

Delete(p, n) == [type |-> "delete", position |-> p, content |-> <<>>, length |-> n,
                 oldLength |-> 0, userId |-> "none", id |-> 0]

Replace(p, c, n) == [type |-> "replace", position |-> p, content |-> c, length |-> 0,
                     oldLength |-> n, userId |-> "none", id |-> 0]

\* A transform that leaves a delete where it was when an earlier delete
\* has been applied before it.
transformDeleteUnshifted(op1, op2) ==
    IF op1.type = "delete" /\ op2.type = "delete"
    THEN IF op1.position < op2.position \/ op1.position >= op2.position + op2.length
         THEN op2
         ELSE Null
    ELSE op2

\* A transform that moves an operation left by the length of an earlier
\* delete without the lower limit of Math.max.
transformUnclamped(op1, op2) ==
    IF op1.type = "delete" /\ op2.type \in {"insert", "delete"}
    THEN IF op1.position < op2.position
         THEN [op2 EXCEPT !.position = op2.position - op1.length]
         ELSE IF op2.type = "insert" \/ op1.position >= op2.position + op2.length
         THEN op2
         ELSE Null
    ELSE IF op1.type = "insert" /\ op2.type \in {"insert", "delete"}
    THEN IF op1.position <= op2.position
         THEN [op2 EXCEPT !.position = op2.position + Len(op1.content)]
         ELSE op2
    ELSE op2

\* A transform that shifts a later insert whatever the two positions are.
transformShifting(op1, op2) ==
    IF op1.type = "insert" /\ op2.type = "insert"
    THEN [op2 EXCEPT !.position = op2.position + Len(op1.content)]
    ELSE op2

\* A transform that spreads the earlier operation instead of the later one
\* when it shifts.
transformSpreadingEarlier(op1, op2) ==
    IF op1.type = "insert" /\ op2.type \in {"insert", "delete"}
    THEN IF op1.position <= op2.position
         THEN [op1 EXCEPT !.position = op2.position + Len(op1.content)]
         ELSE op2
    ELSE IF op1.type = "delete" /\ op2.type \in {"insert", "delete"}
    THEN IF op1.position < op2.position
         THEN [op1 EXCEPT !.position = Max(op1.position, op2.position - op1.length)]
         ELSE IF op2.type = "insert" \/ op1.position >= op2.position + op2.length
         THEN op2
         ELSE Null
    ELSE op2

transformOperation(op1, op2) ==
    IF op1.type = "insert" /\ op2.type = "insert" THEN
        IF op1.position <= op2.position
        THEN IF op1.content = NoContent THEN Thrown
             ELSE [op2 EXCEPT !.position = op2.position + Len(op1.content)]
        ELSE op2
    ELSE IF op1.type = "delete" /\ op2.type = "insert" THEN
        IF op1.position < op2.position
        THEN [op2 EXCEPT !.position = Max(op1.position, op2.position - op1.length)]
        ELSE op2
    ELSE IF op1.type = "insert" /\ op2.type = "delete" THEN
        IF op1.position <= op2.position
        THEN IF op1.content = NoContent THEN Thrown
             ELSE [op2 EXCEPT !.position = op2.position + Len(op1.content)]
        ELSE op2
    ELSE IF op1.type = "delete" /\ op2.type = "delete" THEN
        IF op1.position < op2.position
        THEN [op2 EXCEPT !.position = Max(op1.position, op2.position - op1.length)]
        ELSE IF op1.position >= op2.position + op2.length
        THEN op2
        ELSE Null
    ELSE op2

applyOperation(content, operation) ==
    CASE operation.type = "insert" ->
            Slice(content, 0, operation.position) \o ContentText(operation.content)
                \o SliceFrom(content, operation.position)
      [] operation.type = "delete" ->
            Slice(content, 0, operation.position)
                \o SliceFrom(content, operation.position + operation.length)
      [] operation.type = "replace" ->
            Slice(content, 0, operation.position) \o ContentText(operation.content)
                \o SliceFrom(content, operation.position + operation.oldLength)
      [] OTHER -> content

-----------------------------------------------------------------------------
(* Harness of the pure functions: two operations authored against one base *)

BaseChars == {"a", "b"}

Bases == UNION {[1..n -> BaseChars] : n \in 0..MaxBaseLen}

InsertTexts == {<<"X">>, <<"Y">>, <<"X", "Y">>}

ClientOps ==
    {Insert(p, c) : p \in 0..MaxPos, c \in InsertTexts}
      \cup {Delete(p, n) : p \in 0..MaxPos, n \in 1..MaxDelLen}
      \cup {Replace(p, <<"X">>, n) : p \in 0..MaxPos, n \in 1..MaxDelLen}

\* applyOperation(applyOperation(base, first), transformOperation(first, second));
\* the conflicting second operation is skipped, as the reconciliation loop does.
ApplyBoth(base, first, second) ==
    LET t == transformOperation(first, second)
        c == applyOperation(base, first)
    IN IF t = Null THEN c ELSE applyOperation(c, t)

OTIdle == [phase |-> "idle", base |-> <<>>, a |-> Null, b |-> Null,
           single |-> <<>>, tAB |-> Null, tBA |-> Null, ab |-> <<>>, ba |-> <<>>]

OTApply ==
    /\ ot.phase = "input"
    /\ ot' = [ot EXCEPT !.phase = "applied",
                        !.single = applyOperation(ot.base, ot.a)]
    /\ UNCHANGED <<sessionVars, reconVars, emitted>>

OTTransform ==
    /\ ot.phase = "applied"
    /\ ot' = [ot EXCEPT !.phase = "transformed",
                        !.tAB = transformOperation(ot.a, ot.b),
                        !.tBA = transformOperation(ot.b, ot.a)]
    /\ UNCHANGED <<sessionVars, reconVars, emitted>>

OTConverge ==
    /\ ot.phase = "transformed"
    /\ ot' = [ot EXCEPT !.phase = "done",
                        !.ab = ApplyBoth(ot.base, ot.a, ot.b),
                        !.ba = ApplyBoth(ot.base, ot.b, ot.a)]
    /\ UNCHANGED <<sessionVars, reconVars, emitted>>

-----------------------------------------------------------------------------
(* Principals, sockets and the documents collection *)

MaxCursor == 0      \* largest cursor position a client reports
MaxJoins == 1       \* join-document events one socket has awaiting the access check

Users == {"u1", "u2", "u3"}

Conns == {"c1", "c2", "c3"}

Docs == {"d1", "d2", "d3", "d4"}

NoDoc == "none"

\* socket.userId set by authenticateSocket: u1 holds two sockets.
UserOf(c) == IF c = "c2" THEN "u2" ELSE "u1"

\* socket.organizationId set by authenticateSocket
OrgOf(u) == IF u = "u3" THEN "o2" ELSE "o1"

\* Access-relevant fields of the stored documents (Document schema).
DocTable(d) ==
    IF d = "d1"
    THEN [organization |-> "o1", status |-> "draft", owner |-> "u1",
          visibility |-> "private",
          sharedWith |-> {[user |-> "u2", permission |-> "editor",
                           isActive |-> TRUE, expired |-> FALSE]}]
    ELSE IF d = "d2"
    THEN [organization |-> "o1", status |-> "published", owner |-> "u2",
          visibility |-> "organization", sharedWith |-> {}]
    ELSE IF d = "d3"
    THEN [organization |-> "o2", status |-> "draft", owner |-> "u3",
          visibility |-> "organization", sharedWith |-> {}]
    ELSE [organization |-> "o2", status |-> "published", owner |-> "u1",
          visibility |-> "organization",
          sharedWith |-> {[user |-> "u2", permission |-> "editor",
                           isActive |-> TRUE, expired |-> FALSE]}]

\* A table of levels that ranks comment above edit.
PermissionLevelUnordered(p) ==
    CASE p = "view" -> 1 [] p = "comment" -> 4 [] p = "edit" -> 3 [] OTHER -> 1

\* permissionLevels[p] || 1
PermissionLevel(p) ==
    CASE p = "view" -> 1 [] p = "comment" -> 2 [] p = "edit" -> 3 [] OTHER -> 1

Denied(msg) == [hasAccess |-> FALSE, role |-> "none", permission |-> "undefined",
                error |-> msg]

Granted(role, perm) == [hasAccess |-> TRUE, role |-> role, permission |-> perm,
                        error |-> "none"]

\* checkDocumentAccess from "Owner has full access" on: owner, share list,
\* visibility, expiry and permission level.
AccessWithin(document, userId, permission) ==
    LET shares == {s \in document.sharedWith : s.user = userId /\ s.isActive}
    IN IF document.owner = userId
       THEN Granted("owner", "undefined")
       ELSE IF shares = {}
       THEN IF document.visibility = "organization" /\ permission = "view"
            THEN Granted("viewer", "undefined")
            ELSE Denied("Access denied")
       ELSE LET sharedAccess == CHOOSE s \in shares : TRUE
            IN IF sharedAccess.expired
               THEN Denied("Access expired")
               ELSE IF PermissionLevel(sharedAccess.permission)
                         < PermissionLevel(permission)
               THEN Denied("Insufficient permissions")
               ELSE Granted("collaborator", sharedAccess.permission)

\* An access check without the organization filter and comparisons.
checkAccessAnyOrganization(userId, documentId, organizationId, permission) ==
    IF documentId \notin Docs THEN Denied("Document not found")
    ELSE IF DocTable(documentId).status = "deleted"
    THEN Denied("Document not found")
    ELSE AccessWithin(DocTable(documentId), userId, permission)

\* checkDocumentAccess on the stored document with the requested _id: the
\* filter of findOne on organization and status, then the owner's organization.
AccessTo(document, userId, organizationId, permission) ==
    IF document.organization # organizationId \/ document.status = "deleted"
    THEN Denied("Document not found")
    ELSE IF OrgOf(document.owner) # organizationId
    THEN Denied("Document owner organization mismatch")
    ELSE AccessWithin(document, userId, permission)

checkDocumentAccess(userId, documentId, organizationId, permission) ==
    IF documentId \notin Docs THEN Denied("Document not found")
    ELSE AccessTo(DocTable(documentId), userId, organizationId, permission)

\* A handler that goes on whatever the access check returned.
HasAccessAlways(accessCheck) == TRUE

\* if (!accessCheck.hasAccess) { socket.emit('error', ...); return; }
HasAccess(accessCheck) == accessCheck.hasAccess

-----------------------------------------------------------------------------
(* Events sent to clients *)

Event(ev, to, d) == [ev |-> ev, to |-> to, doc |-> d]

\* io.emit(ev): reaches every connected socket.
ToEveryone(c, ev, d, st) == {Event(ev, x, d) : x \in {y \in Conns : st[y] = "open"}}

\* socket.emit(ev): reaches the socket while it is connected.
ToSelf(c, ev, d, st) == IF st[c] = "open" THEN {Event(ev, c, d)} ELSE {}

\* socket.to(`document:${d}`).emit(ev): every connected socket of the room
\* except the sender.
ToRoom(c, ev, d, st, rms) ==
    {Event(ev, x, d) : x \in {y \in Conns : y # c /\ st[y] = "open" /\ d \in rms[y]}}

-----------------------------------------------------------------------------
(* Socket event handlers: connection, join, cursor, leave, disconnect *)

\* io.on('connection')
Connect(c) ==
    /\ connState[c] = "new"
    /\ connState' = [connState EXCEPT ![c] = "open"]
    /\ activeConnections' = MapSet(activeConnections, UserOf(c), c)
    /\ emitted' = {}
    /\ UNCHANGED <<ot, currentDocument, documentPermission, rooms, joinPending,
                   documentSessions, userCursors, reconVars>>

\* socket.on('join-document'), up to the await of checkDocumentAccess.
\* d = NoDoc is an event without documentId.
JoinDocument(c, d) ==
    /\ connState[c] = "open"
    /\ IF d = NoDoc
       THEN /\ emitted' = ToSelf(c, "error", d, connState)
            /\ UNCHANGED joinPending
       ELSE /\ <<c, d>> \notin joinPending
            /\ Cardinality({x \in joinPending : x[1] = c}) < MaxJoins
            /\ joinPending' = joinPending \cup {<<c, d>>}
            /\ emitted' = {}
    /\ UNCHANGED <<ot, connState, activeConnections, currentDocument,
                   documentPermission, rooms, documentSessions, userCursors,
                   reconVars>>

\* A join that always installs a new Set for the document.
SessionAddFresh(sessions, d, u) == MapSet(sessions, d, {u})

\* documentSessions.get(d).add(userId), creating the entry when absent
SessionAdd(sessions, d, u) ==
    MapSet(sessions, d, (IF Has(sessions, d) THEN sessions[d] ELSE {}) \cup {u})

\* if (!userCursors.has(d)) userCursors.set(d, new Map())
CursorsInit(cursors, d) ==
    IF Has(cursors, d) THEN cursors ELSE MapSet(cursors, d, EmptyMap)

\* socket.on('join-document'), after checkDocumentAccess has resolved
JoinComplete(c, d) ==
    /\ <<c, d>> \in joinPending
    /\ joinPending' = joinPending \ {<<c, d>>}
    /\ LET accessCheck == checkDocumentAccess(UserOf(c), d, OrgOf(UserOf(c)), "view")
       IN IF ~HasAccess(accessCheck)
          THEN /\ emitted' = ToSelf(c, "error", d, connState)
               /\ UNCHANGED <<rooms, currentDocument, documentPermission,
                              documentSessions, userCursors>>
          ELSE /\ rooms' = [rooms EXCEPT ![c] = @ \cup {d}]
               /\ currentDocument' = [currentDocument EXCEPT ![c] = d]
               /\ documentPermission' =
                      [documentPermission EXCEPT ![c] = accessCheck.permission]
               /\ documentSessions' = SessionAdd(documentSessions, d, UserOf(c))
               /\ userCursors' = CursorsInit(userCursors, d)
               /\ emitted' = ToSelf(c, "document-joined", d, connState)
                               \cup ToRoom(c, "user-joined", d, connState, rooms')
    /\ UNCHANGED <<ot, connState, activeConnections, reconVars>>

\* socket.on('cursor-position')
CursorPosition(c, d, position) ==
    /\ connState[c] = "open"
    /\ IF Has(userCursors, d)
       THEN /\ userCursors' = [userCursors EXCEPT
                                 ![d] = MapSet(@, UserOf(c), position)]
            /\ emitted' = ToRoom(c, "cursor-update", d, connState, rooms)
       ELSE /\ emitted' = {}
            /\ UNCHANGED userCursors
    /\ UNCHANGED <<ot, connState, activeConnections, currentDocument,
                   documentPermission, rooms, joinPending, documentSessions,
                   reconVars>>

\* documentSessions.get(d).delete(userId), dropping the entry when it empties
SessionRemove(sessions, d, u) ==
    IF ~Has(sessions, d) THEN sessions
    ELSE IF sessions[d] \ {u} = {} THEN MapDelete(sessions, d)
    ELSE [sessions EXCEPT ![d] = @ \ {u}]

\* userCursors after the session clean-up and "Remove cursor" of leave/disconnect
CursorsRemove(sessions, cursors, d, u) ==
    LET afterCleanup == IF Has(sessions, d) /\ sessions[d] \ {u} = {}
                        THEN MapDelete(cursors, d) ELSE cursors
    IN IF Has(afterCleanup, d)
       THEN [afterCleanup EXCEPT ![d] = MapDelete(@, u)]
       ELSE afterCleanup

\* A guard on the presence of documentId alone.
IsNamed(c, d) == d # NoDoc

\* if (documentId && socket.currentDocument === documentId)
IsCurrent(c, d) == d # NoDoc /\ currentDocument[c] = d

\* socket.on('leave-document')
LeaveDocument(c, d) ==
    /\ connState[c] = "open"
    /\ IF IsCurrent(c, d)
       THEN /\ documentSessions' = SessionRemove(documentSessions, d, UserOf(c))
            /\ userCursors' = CursorsRemove(documentSessions, userCursors, d, UserOf(c))
            /\ rooms' = [rooms EXCEPT ![c] = @ \ {d}]
            /\ emitted' = ToRoom(c, "user-left", d, connState, rooms')
            /\ currentDocument' = [currentDocument EXCEPT ![c] = NoDoc]
            /\ documentPermission' = [documentPermission EXCEPT ![c] = "null"]
       ELSE /\ emitted' = {}
            /\ UNCHANGED <<documentSessions, userCursors, rooms, currentDocument,
                           documentPermission>>
    /\ UNCHANGED <<ot, connState, activeConnections, joinPending, reconVars>>

\* A disconnect that also withdraws the queued operations of its principal.
DisconnectWithdrawing(c) ==
    /\ connState[c] = "open"
    /\ connState' = [connState EXCEPT ![c] = "closed"]
    /\ rooms' = [rooms EXCEPT ![c] = {}]
    /\ activeConnections' = MapDelete(activeConnections, UserOf(c))
    /\ pendingOperations' =
           [d \in DOMAIN pendingOperations |->
               SelectSeq(pendingOperations[d], LAMBDA o : o.userId # UserOf(c))]
    /\ emitted' = {}
    /\ UNCHANGED <<ot, currentDocument, documentPermission, joinPending,
                   documentSessions, userCursors, opReq, pass, dbContent, dbApplied,
                   visited, nUpdated>>

\* socket.on('disconnect'); socket.io has taken the socket out of its rooms
Disconnect(c) ==
    /\ connState[c] = "open"
    /\ connState' = [connState EXCEPT ![c] = "closed"]
    /\ rooms' = [rooms EXCEPT ![c] = {}]
    /\ activeConnections' = MapDelete(activeConnections, UserOf(c))
    /\ IF currentDocument[c] # NoDoc
       THEN LET d == currentDocument[c]
            IN /\ documentSessions' = SessionRemove(documentSessions, d, UserOf(c))
               /\ userCursors' =
                      CursorsRemove(documentSessions, userCursors, d, UserOf(c))
               /\ emitted' = ToRoom(c, "user-left", d, connState', rooms')
       ELSE /\ emitted' = {}
            /\ UNCHANGED <<documentSessions, userCursors>>
    /\ UNCHANGED <<ot, currentDocument, documentPermission, joinPending, reconVars>>

-----------------------------------------------------------------------------
(* JavaScript numbers as far as document.version needs them *)

Undefined == [kind |-> "undefined", n |-> 0]

NaN == [kind |-> "NaN", n |-> 0]

Num(k) == [kind |-> "number", n |-> k]

\* v + k for a number k
JsAdd(v, k) == IF v.kind = "number" THEN Num(v.n + k) ELSE NaN

\* document.version of a document returned by Document.findById: the schema
\* declares no path "version" (only versions and currentVersion).
LoadedVersion == Undefined

-----------------------------------------------------------------------------
(* document-operation events and the reconciliation pass *)

InitialContent == <<"a", "b">>

ReconOps == {Insert(0, <<"X">>), Insert(1, <<"Y">>), Delete(0, 1), Delete(0, 2)}

OpIds == DOMAIN opReq

QueueOf(d) == IF Has(pendingOperations, d) THEN pendingOperations[d] ELSE <<>>

IdsOf(operations) == {operations[k].id : k \in DOMAIN operations}

NoPass == [doc |-> NoDoc, conn |-> "none", pc |-> "armed", live |-> FALSE,
           operations |-> <<>>, loaded |-> <<>>, content |-> <<>>,
           lineage |-> <<>>, kept |-> 0, version |-> Undefined,
           success |-> FALSE, error |-> FALSE, threw |-> FALSE]

\* socket.on('document-operation'), up to the await of checkDocumentAccess.
\* d = NoDoc is an event without documentId or operation.
DocumentOperation(c, d, operation, budget) ==
    /\ connState[c] = "open"
    /\ IF d = NoDoc
       THEN /\ emitted' = ToSelf(c, "error", d, connState)
            /\ UNCHANGED opReq
       ELSE /\ Len(opReq) < budget
            /\ opReq' = Append(opReq, [conn |-> c, doc |-> d,
                                       operation |-> operation,
                                       st |-> "checking", late |-> FALSE])
            /\ emitted' = {}
    /\ UNCHANGED <<ot, sessionVars, pendingOperations, pass, dbContent, dbApplied,
                   visited, nUpdated>>

\* Some timer callback of document d has already run.
TimerFired(d) == \E j \in DOMAIN pass : pass[j].doc = d /\ pass[j].pc # "armed"

\* A handler whose timer is armed only after the audit record was written.
OperationCheckedThenAudited(i, auditFails) ==
    /\ i \in OpIds
    /\ opReq[i].st = "checking"
    /\ LET c == opReq[i].conn
           d == opReq[i].doc
           accessCheck == checkDocumentAccess(UserOf(c), d, OrgOf(UserOf(c)), "edit")
           operationWithMeta == [opReq[i].operation EXCEPT !.userId = UserOf(c),
                                                           !.id = i]
       IN IF ~HasAccess(accessCheck)
          THEN /\ opReq' = [opReq EXCEPT ![i].st = "denied"]
               /\ emitted' = ToSelf(c, "error", d, connState)
               /\ UNCHANGED <<pendingOperations, pass>>
          ELSE /\ opReq' = [opReq EXCEPT ![i].st = "queued",
                                         ![i].late = TimerFired(d)]
               /\ pendingOperations' =
                      MapSet(pendingOperations, d,
                             Append(QueueOf(d), operationWithMeta))
               /\ pass' = IF auditFails THEN pass
                          ELSE MapSet(pass, i, [NoPass EXCEPT !.doc = d, !.conn = c])
               /\ emitted' = ToRoom(c, "document-operation", d, connState, rooms)
                               \cup (IF auditFails
                                     THEN ToSelf(c, "error", d, connState)
                                     ELSE {})
    /\ UNCHANGED <<ot, sessionVars, dbContent, dbApplied, visited, nUpdated>>

\* socket.on('document-operation'), after checkDocumentAccess has resolved:
\* enqueue, relay, setTimeout(..., 500) and the audit record.
OperationChecked(i, auditFails) ==
    /\ i \in OpIds
    /\ opReq[i].st = "checking"
    /\ LET c == opReq[i].conn
           d == opReq[i].doc
           accessCheck == checkDocumentAccess(UserOf(c), d, OrgOf(UserOf(c)), "edit")
           operationWithMeta == [opReq[i].operation EXCEPT !.userId = UserOf(c),
                                                           !.id = i]
       IN IF ~HasAccess(accessCheck)
          THEN /\ opReq' = [opReq EXCEPT ![i].st = "denied"]
               /\ emitted' = ToSelf(c, "error", d, connState)
               /\ UNCHANGED <<pendingOperations, pass>>
          ELSE /\ opReq' = [opReq EXCEPT ![i].st = "queued",
                                         ![i].late = TimerFired(d)]
               /\ pendingOperations' =
                      MapSet(pendingOperations, d,
                             Append(QueueOf(d), operationWithMeta))
               /\ pass' = MapSet(pass, i, [NoPass EXCEPT !.doc = d, !.conn = c])
               /\ emitted' = ToRoom(c, "document-operation", d, connState, rooms)
                               \cup (IF auditFails
                                     THEN ToSelf(c, "error", d, connState)
                                     ELSE {})
    /\ UNCHANGED <<ot, sessionVars, dbContent, dbApplied, visited, nUpdated>>

\* A callback that goes on to Document.findById whatever the queue holds.
TimerFireLoading(i) ==
    /\ i \in DOMAIN pass
    /\ pass[i].pc = "armed"
    /\ pass' = [pass EXCEPT ![i].pc = "loading", ![i].live = TRUE]
    /\ emitted' = {}
    /\ UNCHANGED <<ot, sessionVars, pendingOperations, opReq, dbContent, dbApplied,
                   visited, nUpdated>>

\* The setTimeout callback starts processPendingOperations: the queue is read
\* and an empty one ends the pass; otherwise Document.findById is awaited.
\* `operations` is the array held by the map, not a copy.
TimerFire(i) ==
    /\ i \in DOMAIN pass
    /\ pass[i].pc = "armed"
    /\ IF Len(QueueOf(pass[i].doc)) = 0
       THEN pass' = [pass EXCEPT ![i].pc = "done"]
       ELSE pass' = [pass EXCEPT ![i].pc = "loading", ![i].live = TRUE]
    /\ emitted' = {}
    /\ UNCHANGED <<ot, sessionVars, pendingOperations, opReq, dbContent, dbApplied,
                   visited, nUpdated>>

\* Document.findById reads the stored document.
DbRead(i) ==
    /\ i \in DOMAIN pass
    /\ pass[i].pc = "loading"
    /\ pass' = [pass EXCEPT ![i].pc = "loaded",
                            ![i].loaded = dbContent[pass[i].doc],
                            ![i].lineage = dbApplied[pass[i].doc]]
    /\ emitted' = {}
    /\ UNCHANGED <<ot, sessionVars, pendingOperations, opReq, dbContent, dbApplied,
                   visited, nUpdated>>

\* A pass that saves although findById returned no document.
DbReadMissingSaving(i) ==
    /\ i \in DOMAIN pass
    /\ pass[i].pc = "loading"
    /\ pass' = [pass EXCEPT ![i].pc = "saving", ![i].live = FALSE]
    /\ emitted' = {}
    /\ UNCHANGED <<ot, sessionVars, pendingOperations, opReq, dbContent, dbApplied,
                   visited, nUpdated>>

\* Document.findById resolves null, the document having been removed from the
\* collection since the access check: `if (!document) return;`.  A rejection of
\* findById ends the pass in the catch block with the same effect on the state.
DbReadMissing(i) ==
    /\ i \in DOMAIN pass
    /\ pass[i].pc = "loading"
    /\ pass' = [pass EXCEPT ![i].pc = "done", ![i].live = FALSE]
    /\ emitted' = {}
    /\ UNCHANGED <<ot, sessionVars, pendingOperations, opReq, dbContent, dbApplied,
                   visited, nUpdated>>

\* An inner loop that transforms against the last accepted operation only.
TransformAgainstLast(processedOps, j, i, transformedOp) ==
    IF processedOps = <<>> THEN transformedOp
    ELSE transformOperation(processedOps[Len(processedOps)], transformedOp)

\* for (j = 0; j < i; j++) { prevOp = processedOps[j]; if (prevOp) ... }
RECURSIVE TransformAgainst(_, _, _, _)
TransformAgainst(processedOps, j, i, transformedOp) ==
    IF j >= i THEN transformedOp
    ELSE IF j + 1 \in DOMAIN processedOps
    THEN LET t == transformOperation(processedOps[j + 1], transformedOp)
         IN IF t = Null \/ t = Thrown THEN t
            ELSE TransformAgainst(processedOps, j + 1, i, t)
    ELSE TransformAgainst(processedOps, j + 1, i, transformedOp)

\* for (i = 0; i < operations.length; i++) { ... }
RECURSIVE ApplyInOrder(_, _, _, _)
ApplyInOrder(operations, i, content, processedOps) ==
    IF i >= Len(operations)
    THEN [content |-> content, processedOps |-> processedOps, threw |-> FALSE]
    ELSE LET transformedOp ==
                 TransformAgainst(processedOps, 0, i, operations[i + 1])
         IN IF transformedOp = Thrown
            THEN [content |-> content, processedOps |-> processedOps,
                  threw |-> TRUE]
            ELSE IF transformedOp # Null
            THEN ApplyInOrder(operations, i + 1,
                              applyOperation(content, transformedOp),
                              Append(processedOps, transformedOp))
            ELSE ApplyInOrder(operations, i + 1, content, processedOps)

\* document.version += 1
BumpVersion(version) == JsAdd(version, 1)

\* The array a pass iterates: the map's own array while the entry exists.
OperationsOf(p) == IF p.live THEN QueueOf(p.doc) ELSE p.operations

\* processPendingOperations after findById has resolved: the loop over the
\* operations, the assignments to the document and the call of save().  An
\* exception of the loop goes to the catch block: { success: false }.
PassCompute(i) ==
    /\ i \in DOMAIN pass
    /\ pass[i].pc = "loaded"
    /\ LET operations == OperationsOf(pass[i])
           r == ApplyInOrder(operations, 0, pass[i].loaded, <<>>)
       IN IF r.threw
          THEN
          /\ pass' = [pass EXCEPT ![i].pc = "done", ![i].threw = TRUE,
                                  ![i].live = FALSE, ![i].operations = <<>>,
                                  ![i].loaded = <<>>, ![i].lineage = <<>>]
          /\ UNCHANGED visited
          ELSE
          /\ pass' = [pass EXCEPT
                        ![i].pc = "saving",
                        ![i].live = FALSE,
                        ![i].operations = <<>>,
                        ![i].content = r.content,
                        ![i].lineage =
                            @ \o [k \in DOMAIN r.processedOps |-> r.processedOps[k].id],
                        ![i].kept = Len(r.processedOps),
                        ![i].version = BumpVersion(LoadedVersion)]
          /\ visited' = visited \cup IdsOf(operations)
    /\ emitted' = {}
    /\ UNCHANGED <<ot, sessionVars, pendingOperations, opReq, dbContent, dbApplied,
                   nUpdated>>

\* document.save() reaches the database; Mongoose writes the paths that were
\* modified, so content is written when it differs from the loaded value.
DbWrite(i) ==
    /\ i \in DOMAIN pass
    /\ pass[i].pc = "saving"
    /\ LET d == pass[i].doc
       IN IF pass[i].content # pass[i].loaded
          THEN /\ dbContent' = [dbContent EXCEPT ![d] = pass[i].content]
               /\ dbApplied' = [dbApplied EXCEPT ![d] = pass[i].lineage]
          ELSE UNCHANGED <<dbContent, dbApplied>>
    /\ pass' = [pass EXCEPT ![i].pc = "saved"]
    /\ emitted' = {}
    /\ UNCHANGED <<ot, sessionVars, pendingOperations, opReq, visited, nUpdated>>

\* A catch block that also drops the queue of the document.
SaveFailsClearing(i) ==
    /\ i \in DOMAIN pass
    /\ pass[i].pc = "saving"
    /\ pass' = [pass EXCEPT ![i].pc = "done", ![i].error = TRUE,
                            ![i].loaded = <<>>, ![i].lineage = <<>>]
    /\ pendingOperations' = MapDelete(pendingOperations, pass[i].doc)
    /\ emitted' = {}
    /\ UNCHANGED <<ot, sessionVars, opReq, dbContent, dbApplied, visited, nUpdated>>

\* document.save() rejects (a validation or database error): the catch block
\* logs and returns { success: false }; the queue is not cleared and the timer
\* callback broadcasts nothing.
SaveFails(i) ==
    /\ i \in DOMAIN pass
    /\ pass[i].pc = "saving"
    /\ pass' = [pass EXCEPT ![i].pc = "done", ![i].error = TRUE,
                            ![i].loaded = <<>>, ![i].lineage = <<>>]
    /\ emitted' = {}
    /\ UNCHANGED <<ot, sessionVars, pendingOperations, opReq, dbContent, dbApplied,
                   visited, nUpdated>>

\* pendingOperations.delete(d): a pass still holding the deleted array keeps it.
Detach(p, d) ==
    IF p.live /\ p.doc = d
    THEN [p EXCEPT !.live = FALSE, !.operations = QueueOf(d)]
    ELSE p

\* processPendingOperations after save() has resolved, and the rest of the
\* timer callback: clear the queue, return success, broadcast document-updated.
PassFinish(i) ==
    /\ i \in DOMAIN pass
    /\ pass[i].pc = "saved"
    /\ LET d == pass[i].doc
           c == pass[i].conn
       IN /\ pendingOperations' = MapDelete(pendingOperations, d)
          /\ pass' = [j \in DOMAIN pass |->
                        IF j = i
                        THEN [pass[i] EXCEPT !.pc = "done", !.success = TRUE,
                                             !.loaded = <<>>, !.lineage = <<>>]
                        ELSE Detach(pass[j], d)]
          /\ emitted' = ToRoom(c, "document-updated", d, connState, rooms)
                          \cup ToSelf(c, "document-updated", d, connState)
          /\ nUpdated' = [nUpdated EXCEPT ![d] = @ + 1]
    /\ UNCHANGED <<ot, sessionVars, opReq, dbContent, dbApplied, visited>>

-----------------------------------------------------------------------------
(* Initial states and specifications *)

SessionInit ==
    /\ connState = [c \in Conns |-> "new"]
    /\ activeConnections = EmptyMap
    /\ currentDocument = [c \in Conns |-> NoDoc]
    /\ documentPermission = [c \in Conns |-> "undefined"]
    /\ rooms = [c \in Conns |-> {}]
    /\ joinPending = {}
    /\ documentSessions = EmptyMap
    /\ userCursors = EmptyMap

ReconInit ==
    /\ pendingOperations = EmptyMap
    /\ opReq = <<>>
    /\ pass = EmptyMap
    /\ dbContent = [d \in Docs |-> InitialContent]
    /\ dbApplied = [d \in Docs |-> <<>>]
    /\ visited = {}
    /\ nUpdated = [d \in Docs |-> 0]

\* The pure functions on every pair of client operations and every base.
InitOT ==
    /\ ot \in {[OTIdle EXCEPT !.phase = "input", !.base = base, !.a = a, !.b = b] :
                 base \in Bases, a \in ClientOps, b \in ClientOps}
    /\ SessionInit
    /\ ReconInit
    /\ emitted = {}

NextOT == OTApply \/ OTTransform \/ OTConverge

SpecOT == InitOT /\ [][NextOT]_vars

Init ==
    /\ ot = OTIdle
    /\ SessionInit
    /\ ReconInit
    /\ emitted = {}

\* Presence: the sockets of two principals of organization o1 on their two
\* documents and on a document of another organization.
SessionConns == {"c1", "c2"}

SessionDocs == {"d1", "d2", "d3"}

NextSession ==
    \E c \in SessionConns :
        \/ Connect(c)
        \/ Disconnect(c)
        \/ \E d \in SessionDocs \cup {NoDoc} : JoinDocument(c, d)
        \/ \E d \in SessionDocs : JoinComplete(c, d)
        \/ \E d \in SessionDocs, position \in 0..MaxCursor :
               CursorPosition(c, d, position)
        \/ \E d \in SessionDocs \cup {NoDoc} : LeaveDocument(c, d)

SpecSession == Init /\ [][NextSession]_vars

\* Reconciliation: the owner of d1 and another principal send operations on d1.
ReconConns == {"c1", "c2"}

NextRecon ==
    \/ \E c \in ReconConns : Connect(c)
    \/ \E c \in ReconConns, d \in {"d1", NoDoc}, operation \in ReconOps :
           DocumentOperation(c, d, operation, MaxOps)
    \/ \E i \in 1..MaxOps, auditFails \in BOOLEAN : OperationChecked(i, auditFails)
    \/ \E i \in 1..MaxOps : TimerFire(i)
    \/ \E i \in 1..MaxOps : DbRead(i)
    \/ \E i \in 1..MaxOps : PassCompute(i)
    \/ \E i \in 1..MaxOps : DbWrite(i)
    \/ \E i \in 1..MaxOps : SaveFails(i)
    \/ \E i \in 1..MaxOps : PassFinish(i)

SpecRecon == Init /\ [][NextRecon]_vars

\* Collaboration: the owner of d1 and a collaborator join, leave and disconnect
\* while operations on d1 are sent and reconciled; joins of d3 are denied.
MaxCollabOps == 1   \* document-operation events per run of the collaboration

CollabConns == {"c1", "c2"}

CollabOps == {Insert(0, <<"X">>)}

\* d1 is open to both principals, d3 belongs to another organization.
CollabDocs == {"d1", "d3"}

\* The join-document events sent: both sockets ask for d1, c2 also for d3.
CollabJoins == {<<"c1", "d1">>, <<"c2", "d1">>, <<"c2", "d3">>}

NextCollab ==
    \/ \E c \in CollabConns : Connect(c)
    \/ \E c \in CollabConns : Disconnect(c)
    \/ \E j \in CollabJoins : JoinDocument(j[1], j[2])
    \/ \E j \in CollabJoins : JoinComplete(j[1], j[2])
    \/ \E c \in CollabConns, d \in CollabDocs : LeaveDocument(c, d)
    \/ \E c \in CollabConns, operation \in CollabOps :
           DocumentOperation(c, "d1", operation, MaxCollabOps)
    \/ \E i \in 1..MaxCollabOps, auditFails \in BOOLEAN :
           OperationChecked(i, auditFails)
    \/ \E i \in 1..MaxCollabOps : TimerFire(i)
    \/ \E i \in 1..MaxCollabOps : DbRead(i)
    \/ \E i \in 1..MaxCollabOps : PassCompute(i)
    \/ \E i \in 1..MaxCollabOps : DbWrite(i)
    \/ \E i \in 1..MaxCollabOps : SaveFails(i)
    \/ \E i \in 1..MaxCollabOps : PassFinish(i)

SpecCollab == Init /\ [][NextCollab]_vars

\* Tenancy: two principals of organization o1 join and edit d1 and the
\* documents d3 and d4 of organization o2; d4 is owned by u1, shared with u2
\* and visible to its organization.
TenantConns == {"c1", "c2"}

TenantDocs == {"d1", "d3", "d4"}

NextTenant ==
    \/ \E c \in TenantConns : Connect(c)
    \/ \E c \in TenantConns, d \in TenantDocs : JoinDocument(c, d)
    \/ \E c \in TenantConns, d \in TenantDocs : JoinComplete(c, d)
    \/ \E c \in TenantConns, d \in TenantDocs, operation \in CollabOps :
           DocumentOperation(c, d, operation, MaxCollabOps)
    \/ \E i \in 1..MaxCollabOps : OperationChecked(i, FALSE)
    \/ \E i \in 1..MaxCollabOps : TimerFire(i)
    \/ \E i \in 1..MaxCollabOps : DbRead(i)
    \/ \E i \in 1..MaxCollabOps : PassCompute(i)
    \/ \E i \in 1..MaxCollabOps : DbWrite(i)
    \/ \E i \in 1..MaxCollabOps : PassFinish(i)

SpecTenant == Init /\ [][NextTenant]_vars

\* The loop of processPendingOperations on every queue of up to MaxLoopLen
\* operations and every base content.
MaxLoopLen == 3     \* longest queue the loop is run on

LoopOps == {Delete(0, 2), Delete(1, 1), Delete(0, 1), Insert(0, <<"X">>),
            Insert(2, <<"Y">>)}

\* Queues: the k-th operation carries the id k.
LoopQueues ==
    UNION {{[k \in 1..n |-> [q[k] EXCEPT !.id = k]] : q \in [1..n -> LoopOps]} :
             n \in 0..MaxLoopLen}

LoopInit ==
    /\ ot \in {[phase |-> "queued", base |-> base, operations |-> operations,
                 content |-> <<>>, processedOps |-> <<>>] :
                   base \in Bases, operations \in LoopQueues}
    /\ SessionInit
    /\ ReconInit
    /\ emitted = {}

\* let content = document.content; const processedOps = []; for (...) { ... }
LoopRun ==
    /\ ot.phase = "queued"
    /\ LET r == ApplyInOrder(ot.operations, 0, ot.base, <<>>)
       IN ot' = [ot EXCEPT !.phase = "processed", !.content = r.content,
                           !.processedOps = r.processedOps]
    /\ UNCHANGED <<sessionVars, reconVars, emitted>>

NextLoop == LoopRun

SpecLoop == LoopInit /\ [][NextLoop]_vars

\* Scenario: the owner of d1 sends the two inserts A and B on the stored
\* content "hello".
Hello == <<"h", "e", "l", "l", "o">>

OpA == Insert(5, <<" ", "w", "o", "r", "l", "d">>)

OpB == Insert(0, <<">", ">", " ">>)

ScenarioOps == {OpA, OpB}

ScenarioInit ==
    /\ ot = OTIdle
    /\ SessionInit
    /\ pendingOperations = EmptyMap
    /\ opReq = <<>>
    /\ pass = EmptyMap
    /\ dbContent = [d \in Docs |-> Hello]
    /\ dbApplied = [d \in Docs |-> <<>>]
    /\ visited = {}
    /\ nUpdated = [d \in Docs |-> 0]
    /\ emitted = {}

NextScenario ==
    \/ Connect("c1")
    \/ \E operation \in ScenarioOps : DocumentOperation("c1", "d1", operation, MaxOps)
    \/ \E i \in 1..MaxOps : OperationChecked(i, FALSE)
    \/ \E i \in 1..MaxOps : TimerFire(i)
    \/ \E i \in 1..MaxOps : DbRead(i)
    \/ \E i \in 1..MaxOps : PassCompute(i)
    \/ \E i \in 1..MaxOps : DbWrite(i)
    \/ \E i \in 1..MaxOps : PassFinish(i)

SpecScenario == ScenarioInit /\ [][NextScenario]_vars

\* Faults: the owner of d1 sends valid inserts and an insert without content
\* field, and save() may reject.
FaultOps == {Insert(0, <<"X">>), Insert(0, NoContent)}

NextFaults ==
    \/ Connect("c1")
    \/ \E operation \in FaultOps : DocumentOperation("c1", "d1", operation, MaxOps)
    \/ \E i \in 1..MaxOps : OperationChecked(i, FALSE)
    \/ \E i \in 1..MaxOps : TimerFire(i)
    \/ \E i \in 1..MaxOps : DbRead(i)
    \/ \E i \in 1..MaxOps : PassCompute(i)
    \/ \E i \in 1..MaxOps : DbWrite(i)
    \/ \E i \in 1..MaxOps : SaveFails(i)
    \/ \E i \in 1..MaxOps : PassFinish(i)

SpecFaults == Init /\ [][NextFaults]_vars

-----------------------------------------------------------------------------
(* Properties of the transform engine, checked under SpecOT *)

BothInsertsAtOnePosition ==
    /\ ot.a.type = "insert"
    /\ ot.b.type = "insert"
    /\ ot.a.position = ot.b.position

\* C1: two inserts authored against one base at the same position converge:
\* applying A and then transformOperation(A, B) gives the same string as
\* applying B and then transformOperation(B, A).
C1_Convergence ==
    (ot.phase = "done" /\ BothInsertsAtOnePosition) => ot.ab = ot.ba

\* Characters operation a removes: length of a delete, oldLength of a replace.
Removed(operation) ==
    IF operation.type = "delete" THEN operation.length ELSE operation.oldLength

OutOfRange(content, operation) ==
    /\ operation.type \in {"delete", "replace"}
    /\ operation.position + Removed(operation) > Len(content)

\* C7: applyOperation returns the content unchanged for a delete or replace
\* whose position + length exceeds the length of the content.
C7_RangeRejection ==
    (ot.phase # "input" /\ OutOfRange(ot.base, ot.a)) => ot.single = ot.base

\* Both operations are deletes, with the ranges [position, position + length).
BothDeletes == ot.a.type = "delete" /\ ot.b.type = "delete"

Overlapping ==
    /\ ot.a.position < ot.b.position + ot.b.length
    /\ ot.b.position < ot.a.position + ot.a.length

\* C24: for two deletes with overlapping ranges transformOperation returns
\* null, whichever of the two starts first.
C24_OverlappingDeletesConflict ==
    (ot.phase \in {"transformed", "done"} /\ BothDeletes /\ Overlapping) =>
        (ot.tAB = Null /\ ot.tBA = Null)

\* The range of delete operation lies within the base content.
InBase(operation) == operation.position + operation.length <= Len(ot.base)

\* Index k of the base is in the range of delete operation.
Targets(operation, k) ==
    operation.position < k /\ k <= operation.position + operation.length

\* The base without the characters of the ranges of ot.a and ot.b.
BaseWithoutBoth ==
    LET kept == {k \in 1..Len(ot.base) : ~Targets(ot.a, k) /\ ~Targets(ot.b, k)}
        nth(i) == CHOOSE k \in kept : Cardinality({m \in kept : m < k}) = i - 1
    IN [i \in 1..Cardinality(kept) |-> ot.base[nth(i)]]

BaseKeeping(lo, hi) ==
    LET kept == {k \in (lo + 1)..hi : ~Targets(ot.b, k)}
        nth(i) == CHOOSE k \in kept : Cardinality({m \in kept : m < k}) = i - 1
    IN [i \in 1..Cardinality(kept) |-> ot.base[nth(i)]]

\* The base with the text of insert ot.a in place and the characters that
\* delete ot.b targets removed.
InsertKeptDeleteDone ==
    BaseKeeping(0, ot.a.position) \o ot.a.content
        \o BaseKeeping(ot.a.position, Len(ot.base))

InsertAndDelete ==
    /\ ot.a.type = "insert" /\ ot.b.type = "delete"
    /\ ot.a.position <= Len(ot.base)
    /\ InBase(ot.b)

\* C26: for an insert A and a delete B on one base, A and then
\* transformOperation(A, B) removes exactly the characters B targeted and
\* none of A's text, and B and then transformOperation(B, A) keeps A's text.
C26_InsertSurvivesDelete ==
    (ot.phase = "done" /\ InsertAndDelete) =>
        (ot.ab = InsertKeptDeleteDone /\ ot.ba = InsertKeptDeleteDone)

BothInserts == ot.a.type = "insert" /\ ot.b.type = "insert"

\* opB as insert vs insert is to return it after opA.
ShiftedOrSame(opA, opB) ==
    IF opA.position <= opB.position
    THEN [opB EXCEPT !.position = opB.position + Len(opA.content)]
    ELSE opB

\* C27: insert vs insert returns opB with its position increased by the
\* length of opA.content when opA.position <= opB.position, and opB
\* unchanged otherwise.
C27_InsertInsertRule ==
    (ot.phase \in {"transformed", "done"} /\ BothInserts) =>
        (ot.tAB = ShiftedOrSame(ot.a, ot.b) /\ ot.tBA = ShiftedOrSame(ot.b, ot.a))

\* A two-character insert before another insert: the later one has moved by
\* two and the earlier one is unchanged.
C27_Witness ==
    /\ ot.phase = "transformed"
    /\ BothInserts
    /\ ot.a.position < ot.b.position
    /\ Len(ot.a.content) = 2
    /\ ot.tAB.position = ot.b.position + 2
    /\ ot.tBA = ot.a

InsertOrDelete(operation) == operation.type \in {"insert", "delete"}

\* C28: for two operations of kind insert or delete with non-negative
\* positions and lengths, a non-null result of transformOperation has a
\* position >= 0.
C28_PositionNeverNegative ==
    (/\ ot.phase \in {"transformed", "done"}
     /\ InsertOrDelete(ot.a) /\ InsertOrDelete(ot.b)) =>
        /\ ot.tAB # Null => ot.tAB.position >= 0
        /\ ot.tBA # Null => ot.tBA.position >= 0

\* A delete longer than the distance to a later insert: the insert has been
\* moved to the start of the delete, not below it.
C28_Witness ==
    /\ ot.phase = "transformed"
    /\ ot.a.type = "delete" /\ ot.b.type = "insert"
    /\ ot.a.position < ot.b.position
    /\ ot.b.position - ot.a.length < 0
    /\ ot.tAB.position = ot.a.position

-----------------------------------------------------------------------------
(* Properties of the reconciliation pass, checked under SpecRecon *)

InProgress(p) == p.pc \in {"loading", "loaded", "saving", "saved"}

\* C2: no two passes of processPendingOperations for one document are in
\* progress at the same time.
C2_OnePassAtATime ==
    \A i, j \in DOMAIN pass :
        (i # j /\ pass[i].doc = pass[j].doc) =>
            ~(InProgress(pass[i]) /\ InProgress(pass[j]))

\* Operation i is in the array of the map, or in an array a pass has read
\* and not yet iterated.
AwaitsProcessing(i) ==
    \/ i \in IdsOf(QueueOf(opReq[i].doc))
    \/ \E j \in DOMAIN pass :
           /\ pass[j].pc \in {"loading", "loaded"}
           /\ i \in IdsOf(OperationsOf(pass[j]))

\* C3: an accepted operation stays in the pending queue until the loop of
\* some pass has handled it; none is removed unprocessed.
C3_NoOperationLost ==
    \A i \in OpIds :
        opReq[i].st = "queued" => (AwaitsProcessing(i) \/ i \in visited)

Occurrences(seq, x) == Cardinality({k \in DOMAIN seq : seq[k] = x})

\* C4: each accepted operation is applied to the persisted content at most
\* once, over all passes.
C4_AppliedAtMostOnce ==
    \A d \in Docs : \A i \in OpIds : Occurrences(dbApplied[d], i) <= 1

Accepted(d) == {i \in OpIds : opReq[i].doc = d /\ opReq[i].st = "queued"}

\* Every event has been answered and every timer callback has run to its end.
Quiescent ==
    /\ \A i \in OpIds : opReq[i].st # "checking"
    /\ \A i \in DOMAIN pass : pass[i].pc = "done"

\* All operations of d were accepted before the first timer of d ran out.
OneWindow(d) == Accepted(d) # {} /\ \A i \in Accepted(d) : ~opReq[i].late

\* Every save() of a pass of d has succeeded.
AllSaved(d) == \A i \in DOMAIN pass : pass[i].doc = d => ~pass[i].error

\* C5: the operations accepted for a document within one debounce window
\* produce exactly one document-updated broadcast (persistence working).
C5_OneBroadcastPerWindow ==
    \A d \in Docs : (Quiescent /\ OneWindow(d) /\ AllSaved(d)) => nUpdated[d] = 1

\* C6: a pass that applied k operations raises document.version by k.
C6_VersionPerOperation ==
    \A i \in DOMAIN pass :
        (pass[i].pc = "done" /\ pass[i].success) =>
            /\ LoadedVersion.kind = "number"
            /\ pass[i].version = JsAdd(LoadedVersion, pass[i].kept)

-----------------------------------------------------------------------------
(* Properties of membership and presence, checked under SpecSession *)

Members(d) == IF Has(documentSessions, d) THEN documentSessions[d] ELSE {}

\* C8: every user with a cursor in a document is a member of its session.
C8_CursorsSubsetMembers ==
    \A d \in DOMAIN userCursors : DOMAIN userCursors[d] \subseteq Members(d)

SocketsOf(u) == {c \in Conns : UserOf(c) = u}

\* Every socket the principal ever opened has been disconnected.
AllDisconnected(u) ==
    /\ \E c \in SocketsOf(u) : connState[c] = "closed"
    /\ \A c \in SocketsOf(u) : connState[c] # "open"

\* C9: once the disconnect of a socket has been handled, its principal is
\* not a member of any document session on account of that socket.
C9_DisconnectDismisses ==
    \A u \in Users : AllDisconnected(u) => \A d \in Docs : u \notin Members(d)

\* Documents the socket is joined to: in the room, principal in the session.
JoinedDocuments(c) == {d \in Docs : d \in rooms[c] /\ UserOf(c) \in Members(d)}

\* C10: a socket is a member of at most one document session at a time.
C10_OneDocumentPerConnection ==
    \A c \in Conns : Cardinality(JoinedDocuments(c)) <= 1

\* This step stores a cursor of principal u in document d that was not there.
CursorSet(u, d) ==
    /\ Has(userCursors, d) /\ Has(userCursors', d)
    /\ u \notin DOMAIN userCursors[d]
    /\ u \in DOMAIN userCursors'[d]

\* C13: a cursor is stored in a document only for a principal one of whose
\* connections is currently joined to that document.
C13_CursorOnlyWhenJoined ==
    [][\A u \in Users, d \in Docs :
          CursorSet(u, d) =>
              \E c \in SocketsOf(u) : connState[c] = "open" /\ currentDocument[c] = d]_vars

-----------------------------------------------------------------------------
(* Properties of the operation handler and of the broadcast, checked under
   SpecCollab *)

\* Request i passes from the access check into the queue in this step.
Enqueued(i) == i \in OpIds /\ opReq[i].st = "checking" /\ opReq'[i].st = "queued"

\* C11: an operation is appended to the queue of a document only when the
\* sending connection is currently joined to that document.
C11_EnqueueOnlyWhenJoined ==
    [][\A i \in 1..MaxCollabOps :
          Enqueued(i) => currentDocument[opReq[i].conn] = opReq[i].doc]_vars

\* The 'edit' access check of request i, as the handler calls it.
EditCheck(i) ==
    checkDocumentAccess(UserOf(opReq[i].conn), opReq[i].doc,
                        OrgOf(UserOf(opReq[i].conn)), "edit")

\* The handler of request i resumes after its access check in this step.
Resumed(i) == i \in OpIds /\ opReq[i].st = "checking" /\ opReq'[i].st # "checking"

\* C12: an operation is enqueued only if the 'edit' access check of its own
\* event succeeded; when the check fails the queue is unchanged, no relay and
\* no timer is created, and only the sender receives an error event.
C12_DeniedOperationHasNoEffect ==
    [][\A i \in 1..MaxCollabOps :
          /\ Enqueued(i) => EditCheck(i).hasAccess
          /\ (Resumed(i) /\ ~EditCheck(i).hasAccess) =>
                 /\ pendingOperations' = pendingOperations
                 /\ pass' = pass
                 /\ emitted' \subseteq {Event("error", opReq[i].conn, opReq[i].doc)}
                 /\ connState[opReq[i].conn] = "open" => emitted' # {}]_vars

\* A denied operation of a connected sender has been answered while another
\* socket was in the room of the document.
C12_Witness ==
    \E i \in OpIds :
        /\ opReq[i].st = "denied"
        /\ emitted = {Event("error", opReq[i].conn, opReq[i].doc)}
        /\ \E c \in Conns : c # opReq[i].conn /\ opReq[i].doc \in rooms[c]
        /\ ~Has(pendingOperations, opReq[i].doc)

\* The 'view' access check of a join of document d by socket c.
ViewCheck(c, d) == checkDocumentAccess(UserOf(c), d, OrgOf(UserOf(c)), "view")

\* The join handler of socket c for document d resumes after its access check.
JoinResumed(c, d) == <<c, d>> \in joinPending /\ <<c, d>> \notin joinPending'

\* C14: a join-document denied by the access check leaves documentSessions,
\* userCursors, pendingOperations, currentDocument and documentPermission
\* unchanged, emits error only to the requesting connection and emits no
\* user-joined.
C14_DeniedJoinHasNoEffect ==
    [][\A c \in Conns, d \in Docs :
          (JoinResumed(c, d) /\ ~ViewCheck(c, d).hasAccess) =>
              /\ UNCHANGED <<documentSessions, userCursors, pendingOperations,
                             currentDocument, documentPermission, rooms>>
              /\ emitted' \subseteq {Event("error", c, d)}
              /\ connState[c] = "open" => emitted' # {}]_vars

\* A join of d3 by a socket joined to d1 has been denied while the other
\* socket was in the room of d1.
C14_Witness ==
    \E c \in Conns :
        /\ emitted = {Event("error", c, "d3")}
        /\ currentDocument[c] = "d1"
        /\ \E x \in Conns : x # c /\ "d1" \in rooms[x] /\ connState[x] = "open"
        /\ ~Has(documentSessions, "d3")

\* Nothing of any document session changes and no user-left or error is sent.
TeardownIsNoOp ==
    /\ UNCHANGED <<documentSessions, userCursors, pendingOperations>>
    /\ \A e \in emitted' : e.ev \notin {"user-left", "error"}

\* C15: a leave-document for a document that is not the connection's current
\* document, and a disconnect of a connection without current document,
\* change no session's members, cursors or queue, emit no user-left and
\* raise no error.
C15_IdempotentTeardown ==
    [][\A c \in Conns :
          /\ \A d \in Docs \cup {NoDoc} :
                 (LeaveDocument(c, d) /\ currentDocument[c] # d) => TeardownIsNoOp
          /\ (Disconnect(c) /\ currentDocument[c] = NoDoc) => TeardownIsNoOp]_vars

\* A socket that never joined has disconnected while d1 had a member, cursors
\* and a queue, and nothing was sent.
C15_Witness ==
    \E c \in Conns :
        /\ connState[c] = "closed"
        /\ currentDocument[c] = NoDoc
        /\ Members("d1") # {}
        /\ Has(userCursors, "d1")
        /\ QueueOf("d1") # <<>>
        /\ emitted = {}

\* Socket c is joined to document d: in its room, its principal a member.
IsMember(c, d) ==
    connState[c] = "open" /\ d \in rooms[c] /\ UserOf(c) \in Members(d)

\* C20: document-updated is delivered to exactly the connections that are
\* members of the document when it is emitted.
C20_UpdateToMembersOnly ==
    \A e \in emitted :
        e.ev = "document-updated" =>
            /\ IsMember(e.to, e.doc)
            /\ \A c \in Conns :
                   IsMember(c, e.doc) => Event("document-updated", c, e.doc) \in emitted

\* Socket c is disconnected in this step.
Disconnected(c) == connState[c] = "open" /\ connState'[c] = "closed"

\* Socket c leaves its current document in this step.
Left(c) == currentDocument[c] # NoDoc /\ currentDocument'[c] = NoDoc

\* The loop of pass j over the map's array runs to its end in this step.
ComputedOnQueue(j) ==
    j \in DOMAIN pass /\ pass[j].pc = "loaded" /\ pass[j].live /\ pass'[j].pc = "saving"

\* C21: leave-document and disconnect leave pendingOperations and the armed
\* timers unchanged, and a pass applies every operation of the queue whether
\* or not its author is still connected or joined.
C21_QueuedOperationNotWithdrawn ==
    [][/\ \A c \in Conns :
             (Disconnected(c) \/ Left(c)) =>
                 pendingOperations' = pendingOperations /\ pass' = pass
       /\ \A j \in 1..MaxCollabOps :
             ComputedOnQueue(j) =>
                 /\ IdsOf(QueueOf(pass[j].doc)) \subseteq
                        {pass'[j].lineage[k] : k \in DOMAIN pass'[j].lineage}
                 /\ pass'[j].kept = Len(QueueOf(pass[j].doc))]_vars

\* The operation of a socket that has disconnected was applied, stored and
\* broadcast to the other socket alone.
C21_Witness ==
    \E i \in DOMAIN pass :
        /\ pass[i].success
        /\ connState[pass[i].conn] = "closed"
        /\ i \in {dbApplied["d1"][k] : k \in DOMAIN dbApplied["d1"]}
        /\ emitted # {}
        /\ \A e \in emitted : e.ev = "document-updated" /\ e.to # pass[i].conn

\* The audit record of request i could not be written: the request is
\* accepted and its sender is told of a failure in the same step.
AuditFailed(i) ==
    Enqueued(i) /\ Event("error", opReq[i].conn, opReq[i].doc) \in emitted'

\* The timer callback of pass i ends with the broadcast in this step.
Finished(i) == i \in DOMAIN pass /\ pass[i].pc = "saved" /\ pass'[i].pc = "done"

\* C23: a failure of the audit write does not block the editing path: the
\* operation is in the queue, it is relayed, its timer is armed and stays
\* armed until it fires, and its pass ends with the broadcast.
C23_AuditFailureDoesNotBlock ==
    [][\A i \in 1..MaxCollabOps :
          /\ AuditFailed(i) =>
                 /\ pendingOperations' =
                        MapSet(pendingOperations, opReq[i].doc,
                               Append(QueueOf(opReq[i].doc),
                                      [opReq[i].operation EXCEPT
                                           !.userId = UserOf(opReq[i].conn),
                                           !.id = i]))
                 /\ Has(pass', i) /\ pass'[i].pc = "armed"
                 /\ ToRoom(opReq[i].conn, "document-operation", opReq[i].doc,
                           connState, rooms) \subseteq emitted'
          /\ (Has(pass, i) /\ pass[i].pc = "armed") =>
                 (Has(pass', i) /\ pass'[i].pc \in {"armed", "loading", "done"})
          /\ Finished(i) =>
                 /\ nUpdated'[pass[i].doc] = nUpdated[pass[i].doc] + 1
                 /\ emitted' = ToRoom(pass[i].conn, "document-updated", pass[i].doc,
                                      connState, rooms)
                                 \cup ToSelf(pass[i].conn, "document-updated",
                                             pass[i].doc, connState)]_vars

\* The audit write of an operation has just failed: the sender has the error,
\* the other socket has the relay, the operation is queued and its timer armed.
C23_Witness ==
    \E i \in OpIds :
        /\ opReq[i].st = "queued"
        /\ Event("error", opReq[i].conn, opReq[i].doc) \in emitted
        /\ \E e \in emitted : e.ev = "document-operation" /\ e.to # opReq[i].conn
        /\ i \in IdsOf(QueueOf(opReq[i].doc))
        /\ Has(pass, i) /\ pass[i].pc = "armed"

\* C30: joins of one document whose access checks complete in any order
\* neither replace its session nor lose a member: each admitted join adds its
\* principal to the one member set of the document and changes no other.
C30_ConcurrentJoinsKeepMembers ==
    [][\A c \in Conns, d \in Docs :
          (JoinResumed(c, d) /\ ViewCheck(c, d).hasAccess) =>
              /\ Members(d)' = Members(d) \cup {UserOf(c)}
              /\ \A x \in Docs \ {d} : Members(x)' = Members(x)]_vars

\* The join of c2 has just been admitted to d1, where c1 already was: both
\* principals are members and c1 has been told.
C30_Witness ==
    /\ Members("d1") = {"u1", "u2"}
    /\ currentDocument["c1"] = "d1" /\ currentDocument["c2"] = "d1"
    /\ emitted = {Event("document-joined", "c2", "d1"), Event("user-joined", "c1", "d1")}

-----------------------------------------------------------------------------
(* The scenario of the two inserts, checked under SpecScenario *)

\* Pass i has loaded "hello" and has applied exactly A and then B.
AppliedAThenB(i) ==
    /\ pass[i].pc \in {"saving", "saved"}
    /\ pass[i].loaded = Hello
    /\ Len(pass[i].lineage) = 2
    /\ opReq[pass[i].lineage[1]].operation = OpA
    /\ opReq[pass[i].lineage[2]].operation = OpB

HelloWorld == <<">", ">", " ", "h", "e", "l", "l", "o", " ", "w", "o", "r", "l", "d">>

\* C16: with stored content "hello" and the queue [A = insert " world" at 5,
\* B = insert ">> " at 0], one pass leaves B unshifted and produces
\* ">> hello world".
C16_HelloWorldScenario ==
    \A i \in DOMAIN pass : AppliedAThenB(i) => pass[i].content = HelloWorld

\* One pass over [A, B] on "hello" has stored its result.
C16_Witness ==
    \E i \in DOMAIN pass :
        /\ AppliedAThenB(i)
        /\ pass[i].pc = "saved"
        /\ dbContent["d1"] = HelloWorld

\* a < b: false whenever an operand is NaN (undefined converts to NaN)
JsLess(a, b) == a.kind = "number" /\ b.kind = "number" /\ a.n < b.n

\* The timer callback of pass i has broadcast document-updated.
Broadcast(i) == i \in DOMAIN pass /\ pass[i].success

\* C19: the versions carried by the document-updated broadcasts of one
\* document are strictly increasing, so no two broadcasts of a document carry
\* the same version.
C19_VersionsIncrease ==
    \A i, j \in DOMAIN pass :
        (i # j /\ Broadcast(i) /\ Broadcast(j) /\ pass[i].doc = pass[j].doc) =>
            (JsLess(pass[i].version, pass[j].version)
                \/ JsLess(pass[j].version, pass[i].version))

-----------------------------------------------------------------------------
(* Properties of failing passes, checked under SpecFaults *)

\* C17: a bad operation is dropped and does not halt the session: once every
\* event and every pass has ended, with every save() successful, no operation
\* is left in the queue of the document.
C17_BadOperationDropped ==
    \A d \in Docs : (Quiescent /\ AllSaved(d)) => QueueOf(d) = <<>>

\* The save() of pass i rejects in this step.
FailedSave(i) == i \in DOMAIN pass /\ pass[i].pc = "saving" /\ pass'[i].pc = "done"

\* The loop of pass j runs to its end in this step.
Computed(j) == j \in DOMAIN pass /\ pass[j].pc = "loaded" /\ pass'[j].pc = "saving"

\* The elements of a sequence.
Range(seq) == {seq[k] : k \in DOMAIN seq}

-----------------------------------------------------------------------------
(* Organization isolation, checked under SpecTenant *)

\* socket.organizationId, set by authenticateSocket from the user record
OrganizationOf(c) == OrgOf(UserOf(c))

\* C22: access is granted only for a document of the connection's own
\* organization: no principal is a member of, and no operation is queued
\* for, a document of another organization, whatever its owner, sharing
\* list or visibility.
C22_OrganizationIsolation ==
    /\ \A d \in Docs : \A u \in Members(d) : DocTable(d).organization = OrgOf(u)
    /\ \A c \in Conns :
           currentDocument[c] # NoDoc =>
               DocTable(currentDocument[c]).organization = OrganizationOf(c)
    /\ \A c \in Conns : \A d \in rooms[c] :
           DocTable(d).organization = OrganizationOf(c)
    /\ \A i \in OpIds :
           opReq[i].st = "queued" =>
               DocTable(opReq[i].doc).organization = OrganizationOf(opReq[i].conn)
    /\ \A d \in DOMAIN pendingOperations :
           \A k \in DOMAIN pendingOperations[d] :
               DocTable(d).organization = OrgOf(pendingOperations[d][k].userId)

\* A request of the owner of d4 on d4 has just been answered with an error,
\* its operation on d4 is denied and d4 has no session, while the socket is
\* joined to d1 of its own organization.
C22_Witness ==
    /\ currentDocument["c1"] = "d1"
    /\ \E i \in OpIds :
           opReq[i].conn = "c1" /\ opReq[i].doc = "d4" /\ opReq[i].st = "denied"
    /\ emitted = {Event("error", "c1", "d4")}
    /\ ~Has(documentSessions, "d4")
    /\ <<"c1", "d4">> \notin joinPending

-----------------------------------------------------------------------------
(* The order of transforms and applications in one pass, checked under
   SpecLoop *)

\* op transformed against the accepted operations one after the other, null
\* as soon as one step yields null.
RECURSIVE TransformThrough(_, _)
TransformThrough(accepted, op) ==
    IF accepted = <<>> THEN op
    ELSE LET t == transformOperation(Head(accepted), op)
         IN IF t = Null THEN Null ELSE TransformThrough(Tail(accepted), t)

\* The queue taken in arrival order: each operation is transformed through
\* the operations accepted so far, dropped when that yields null, applied and
\* accepted otherwise.
RECURSIVE InArrivalOrder(_, _, _)
InArrivalOrder(operations, content, accepted) ==
    IF operations = <<>> THEN [content |-> content, accepted |-> accepted]
    ELSE LET t == TransformThrough(accepted, Head(operations))
         IN IF t = Null
            THEN InArrivalOrder(Tail(operations), content, accepted)
            ELSE InArrivalOrder(Tail(operations), applyOperation(content, t),
                                Append(accepted, t))

\* C29: in one pass each operation is transformed, in order, against every
\* operation accepted before it and against none that was dropped; an
\* operation whose transform yields null is neither applied nor used for
\* later transforms; accepted operations are applied in arrival order.
C29_TransformThenApplyInOrder ==
    ot.phase = "processed" =>
        LET r == InArrivalOrder(ot.operations, ot.base, <<>>)
        IN /\ ot.content = r.content
           /\ ot.processedOps = r.accepted
           /\ \A k \in 1..(Len(ot.processedOps) - 1) :
                  ot.processedOps[k].id < ot.processedOps[k + 1].id

\* A pass over three operations has dropped the second, a delete overlapping
\* the first, and has accepted the third after it.
C29_Witness ==
    /\ ot.phase = "processed"
    /\ Len(ot.operations) = 3
    /\ Len(ot.processedOps) = 2
    /\ ot.processedOps[1].id = 1
    /\ ot.processedOps[2].id = 3
    /\ ot.operations[3].type = "insert"
    /\ ot.processedOps[2].position # ot.operations[3].position

-----------------------------------------------------------------------------
(* Two documents edited side by side *)

IsoConns == {"c1", "c2"}

IsoOps == {Insert(0, <<"X">>)}

\* The join-document events sent: each owner asks for its own document.
IsoJoins == {<<"c1", "d1">>, <<"c2", "d2">>}

\* The document-operation events sent: each owner edits its own document.
IsoEdits == {<<"c1", "d1">>, <<"c2", "d2">>}

\* As many document-operation events per run as there are editors.
IsoBudget == Cardinality(IsoEdits)

NextIsolation ==
    \/ \E c \in IsoConns : Connect(c)
    \/ \E j \in IsoJoins : JoinDocument(j[1], j[2])
    \/ \E j \in IsoJoins : JoinComplete(j[1], j[2])
    \/ \E j \in IsoJoins, position \in 0..MaxCursor :
           CursorPosition(j[1], j[2], position)
    \/ \E j \in IsoJoins : LeaveDocument(j[1], j[2])
    \/ \E e \in IsoEdits, operation \in IsoOps :
           DocumentOperation(e[1], e[2], operation, IsoBudget)
    \/ \E i \in 1..IsoBudget : OperationChecked(i, FALSE)
    \/ \E i \in 1..IsoBudget : TimerFire(i)
    \/ \E i \in 1..IsoBudget : DbRead(i)
    \/ \E i \in 1..IsoBudget : PassCompute(i)
    \/ \E i \in 1..IsoBudget : DbWrite(i)
    \/ \E i \in 1..IsoBudget : PassFinish(i)

SpecIsolation == Init /\ [][NextIsolation]_vars

-----------------------------------------------------------------------------
(* The access check on every stored document *)

Orgs == {"o1", "o2"}

\* share.permission as the schema allows it and as permissionLevels ranks it
SharePermissions == {"viewer", "editor", "admin", "view", "comment", "edit"}

\* sharedWith lists with at most one entry, for principal u2
ShareLists ==
    {{}} \cup {{[user |-> "u2", permission |-> p, isActive |-> a, expired |-> e]} :
                 p \in SharePermissions, a \in BOOLEAN, e \in BOOLEAN}

StoredDocuments ==
    [organization : Orgs, status : {"draft", "deleted"}, owner : Users,
     visibility : {"private", "organization"}, sharedWith : ShareLists]

AccessInit ==
    /\ ot \in {[phase |-> "asked", userId |-> u, document |-> document,
                 organizationId |-> o, view |-> Null, comment |-> Null,
                 edit |-> Null] :
                   u \in Users, document \in StoredDocuments, o \in Orgs}
    /\ SessionInit
    /\ ReconInit
    /\ emitted = {}

\* checkDocumentAccess called with each of the three permissions
AccessAsk ==
    /\ ot.phase = "asked"
    /\ ot' = [ot EXCEPT
                !.phase = "answered",
                !.view = AccessTo(ot.document, ot.userId, ot.organizationId, "view"),
                !.comment = AccessTo(ot.document, ot.userId, ot.organizationId, "comment"),
                !.edit = AccessTo(ot.document, ot.userId, ot.organizationId, "edit")]
    /\ UNCHANGED <<sessionVars, reconVars, emitted>>

NextAccess == AccessAsk

SpecAccess == AccessInit /\ [][NextAccess]_vars

-----------------------------------------------------------------------------
(* Passes over a collection that loses documents *)

\* The owner of d1 sends inserts; the document may be gone when a pass loads
\* it, and save() may reject.
NextPersist ==
    \/ Connect("c1")
    \/ \E operation \in CollabOps : DocumentOperation("c1", "d1", operation, MaxOps)
    \/ \E i \in 1..MaxOps : OperationChecked(i, FALSE)
    \/ \E i \in 1..MaxOps : TimerFire(i)
    \/ \E i \in 1..MaxOps : DbRead(i)
    \/ \E i \in 1..MaxOps : DbReadMissing(i)
    \/ \E i \in 1..MaxOps : PassCompute(i)
    \/ \E i \in 1..MaxOps : DbWrite(i)
    \/ \E i \in 1..MaxOps : SaveFails(i)
    \/ \E i \in 1..MaxOps : PassFinish(i)

SpecPersist == Init /\ [][NextPersist]_vars

-----------------------------------------------------------------------------
(* One principal on two sockets *)

\* Two sockets of principal u1, as of two browser tabs.
TabConns == {"c1", "c3"}

TabDocs == {"d1", "d2"}

NextTabs ==
    \E c \in TabConns :
        \/ Connect(c)
        \/ Disconnect(c)
        \/ \E d \in TabDocs : JoinDocument(c, d)
        \/ \E d \in TabDocs : JoinComplete(c, d)
        \/ \E d \in TabDocs : LeaveDocument(c, d)

SpecTabs == Init /\ [][NextTabs]_vars

-----------------------------------------------------------------------------
(* Session lifecycle, checked under SpecSession *)

\* Some connected socket is in the room of document d.
SomeoneJoined(d) == \E c \in Conns : connState[c] = "open" /\ d \in rooms[c]

\* C31: a document has a session entry exactly when some principal is joined
\* to it; the entry never holds an empty set, and with the entry the cursor
\* map of the document is gone.
C31_SessionLifecycle ==
    \A d \in Docs :
        /\ Has(documentSessions, d) <=> SomeoneJoined(d)
        /\ Has(documentSessions, d) => documentSessions[d] # {}
        /\ Has(userCursors, d) => Has(documentSessions, d)

\* The activeUsers list of document-joined: the members of the document whose
\* userId has a socket in activeConnections.
activeUsers(sessions, connections, d) == {u \in sessions[d] : Has(connections, u)}

\* The principals with a connected socket whose current document is d.
JoinedPrincipals(d) ==
    {UserOf(c) : c \in {x \in Conns : connState[x] = "open" /\ currentDocument[x] = d}}

\* C33: the activeUsers list sent with document-joined holds exactly the
\* principals that have a connection joined to the document, the joiner
\* included.  The list is built from the maps as the handler has just left them.
C33_ActiveUsersAreTheJoined ==
    [][\A c \in Conns, d \in Docs :
          (JoinResumed(c, d) /\ ViewCheck(c, d).hasAccess /\ connState[c] = "open") =>
              activeUsers(documentSessions, activeConnections, d)' = JoinedPrincipals(d)']_vars

-----------------------------------------------------------------------------
(* Joining and leaving, checked under SpecCollab *)

\* The cursor of principal u in document d is recorded at position p.
CursorAt(d, u, p) ==
    /\ Has(userCursors, d)
    /\ Has(userCursors[d], u)
    /\ userCursors[d][u] = p

\* C32: an admitted join adds the principal to the members of the document
\* and leaves it with a cursor entry of value 0 in that document.
C32_JoinInitializesCursor ==
    [][\A c \in Conns, d \in Docs :
          (JoinResumed(c, d) /\ ViewCheck(c, d).hasAccess) =>
              /\ UserOf(c) \in Members(d)'
              /\ CursorAt(d, UserOf(c), 0)']_vars

-----------------------------------------------------------------------------
(* Isolation of documents, checked under SpecIsolation *)

\* What the server holds about document d: members, cursors, pending queue,
\* stored content, and the passes in flight with the content and version they
\* are about to save.
DocState(d) ==
    [members |-> IF Has(documentSessions, d) THEN {documentSessions[d]} ELSE {},
     cursors |-> IF Has(userCursors, d) THEN {userCursors[d]} ELSE {},
     queue   |-> IF Has(pendingOperations, d) THEN {pendingOperations[d]} ELSE {},
     content |-> dbContent[d],
     applied |-> dbApplied[d],
     passes  |-> {<<j, pass[j]>> : j \in {k \in DOMAIN pass : pass[k].doc = d}}]

\* A step of a join-document, document-operation, cursor-position or
\* leave-document handler, or of a reconciliation pass, for document d.
StepFor(d) ==
    \/ \E c \in Conns : JoinDocument(c, d) \/ JoinComplete(c, d) \/ LeaveDocument(c, d)
    \/ \E c \in Conns, position \in 0..MaxCursor : CursorPosition(c, d, position)
    \/ \E c \in Conns, operation \in IsoOps :
           DocumentOperation(c, d, operation, IsoBudget)
    \/ \E i \in OpIds : opReq[i].doc = d /\ OperationChecked(i, FALSE)
    \/ \E i \in DOMAIN pass :
           /\ pass[i].doc = d
           /\ TimerFire(i) \/ DbRead(i) \/ PassCompute(i) \/ DbWrite(i) \/ PassFinish(i)

\* C34: a join-document, document-operation, cursor-position, leave-document
\* or reconciliation pass for one document leaves the members, cursors,
\* pending queue, content and version of every other document unchanged.
C34_PerDocumentIsolation ==
    [][\A d1 \in Docs :
          StepFor(d1) => \A d2 \in Docs \ {d1} : DocState(d2)' = DocState(d2)]_vars

\* The pass of d1 has cleared its queue while d2 has members, a cursor and a
\* queued operation.
C34_Witness ==
    /\ \E i \in DOMAIN pass : pass[i].doc = "d1" /\ pass[i].success
    /\ ~Has(pendingOperations, "d1")
    /\ Has(documentSessions, "d2")
    /\ Has(userCursors, "d2") /\ DOMAIN userCursors["d2"] # {}
    /\ QueueOf("d2") # <<>>

-----------------------------------------------------------------------------
(* Several connections of one principal, checked under SpecTabs *)

\* C35: while a connected socket of a principal is joined to a document, the
\* principal is a member of the document and has an entry in
\* activeConnections, whatever its other sockets have left or closed.
C35_MembershipHeldByAnyConnection ==
    \A c \in Conns, d \in Docs :
        (connState[c] = "open" /\ currentDocument[c] = d /\ d \in rooms[c]) =>
            /\ UserOf(c) \in Members(d)
            /\ Has(activeConnections, UserOf(c))

-----------------------------------------------------------------------------
(* Passes that find nothing to do, checked under SpecFaults *)

\* The timer callback of pass i runs in this step.
TimerRuns(i) == pass[i].pc = "armed" /\ pass'[i].pc # "armed"

\* Pass i returned at once: nothing loaded, saved or broadcast by it.
ReturnedAtOnce(i) ==
    /\ pass[i].pc = "done"
    /\ ~pass[i].success /\ ~pass[i].error /\ ~pass[i].threw
    /\ pass[i].loaded = <<>> /\ pass[i].content = <<>> /\ pass[i].version = Undefined

\* C36: a pass whose timer finds the pending queue of its document empty or
\* absent ends there: it loads and saves nothing, leaves the stored content
\* and the version alone and broadcasts no document-updated, and it takes no
\* later step.
C36_EmptyPassDoesNothing ==
    [][\A i \in DOMAIN pass :
          /\ (TimerRuns(i) /\ QueueOf(pass[i].doc) = <<>>) =>
                 /\ ReturnedAtOnce(i)'
                 /\ dbContent' = dbContent /\ dbApplied' = dbApplied
                 /\ nUpdated' = nUpdated
                 /\ pendingOperations' = pendingOperations
                 /\ emitted' = {}
          /\ ReturnedAtOnce(i) => pass'[i] = pass[i]]_vars

\* The first pass has saved and cleared the queue; the timer of the second
\* operation then found no queue.
C36_Witness ==
    \E i, j \in DOMAIN pass :
        /\ pass[i].success
        /\ ReturnedAtOnce(j)
        /\ ~Has(pendingOperations, pass[j].doc)

-----------------------------------------------------------------------------
(* Errors reported to the sender of an operation, checked under SpecCollab *)

\* The document-operation handler of request i resumes in this step and
\* emits error to its sender.
ErrorToSender(i) ==
    /\ opReq[i].st = "checking"
    /\ opReq'[i].st # "checking"
    /\ Event("error", opReq[i].conn, opReq[i].doc) \in emitted'

\* C37: whenever the document-operation handler emits error to the sender,
\* the operation has not been appended to the pending queue, has not been
\* relayed to the other members and no pass is armed to apply it.
C37_ErrorOnlyWhenNotAccepted ==
    [][\A i \in OpIds :
          ErrorToSender(i) =>
              /\ i \notin IdsOf(QueueOf(opReq[i].doc))'
              /\ \A e \in emitted' : e.ev # "document-operation"
              /\ ~Has(pass, i)']_vars

-----------------------------------------------------------------------------
(* The access check and the requested permission, checked under SpecAccess *)

\* The principal owns the document, which is stored, not deleted, in the
\* organization the request is made for.
OwnerInOrganization ==
    /\ ot.document.owner = ot.userId
    /\ ot.document.status # "deleted"
    /\ ot.document.organization = ot.organizationId
    /\ OrgOf(ot.userId) = ot.organizationId

\* C38: for one user, document and organization, access granted for 'edit'
\* is granted for 'comment' and access granted for 'comment' is granted for
\* 'view'; the owner of the document is granted every level.
C38_AccessMonotone ==
    ot.phase = "answered" =>
        /\ ot.edit.hasAccess => ot.comment.hasAccess
        /\ ot.comment.hasAccess => ot.view.hasAccess
        /\ OwnerInOrganization =>
               ot.view.hasAccess /\ ot.comment.hasAccess /\ ot.edit.hasAccess

\* A collaborator whose share reaches 'edit' has been granted all three
\* levels.
C38_Witness ==
    /\ ot.phase = "answered"
    /\ ot.edit.hasAccess /\ ot.edit.role = "collaborator"
    /\ ot.comment.hasAccess /\ ot.view.hasAccess

-----------------------------------------------------------------------------
(* What a transform may change, checked under SpecOT *)

\* r is op with, at most, another position.
SameButPosition(r, op) == r = [op EXCEPT !.position = r.position]

\* operationWithMeta: the operation with the userId and id of its sender.
Stamped(op, u, k) == [op EXCEPT !.userId = u, !.id = k]

\* An operation of a type the transform does not know.
Retain(op) == [op EXCEPT !.type = "retain"]

\* C39: a non-null result of transformOperation(opA, opB) has the type,
\* content, length, oldLength, userId and id of opB, whatever opA carries, and
\* a pair with a replace or an operation of unknown type returns opB itself.
C39_TransformChangesPositionOnly ==
    ot.phase \in {"transformed", "done"} =>
        LET a == Stamped(ot.a, "u1", 1)
            b == Stamped(ot.b, "u2", 2)
            t == transformOperation(a, b)
        IN /\ ot.tAB # Null => SameButPosition(ot.tAB, ot.b)
           /\ ot.tBA # Null => SameButPosition(ot.tBA, ot.a)
           /\ t # Null => SameButPosition(t, b)
           /\ (ot.a.type = "replace" \/ ot.b.type = "replace") =>
                  ot.tAB = ot.b /\ ot.tBA = ot.a /\ t = b
           /\ transformOperation(Retain(a), b) = b
           /\ transformOperation(a, Retain(b)) = Retain(b)

\* An insert has been moved right by an earlier insert of another text and
\* has kept its own text.
C39_Witness ==
    /\ ot.phase = "transformed"
    /\ ot.a.type = "insert" /\ ot.b.type = "insert"
    /\ ot.a.content # ot.b.content
    /\ ot.tAB.position > ot.b.position
    /\ ot.tAB.content = ot.b.content

-----------------------------------------------------------------------------
(* Calls of document.save(), checked under SpecPersist *)

\* Pass i calls document.save() in this step.
SaveCalled(i) == pass[i].pc # "saving" /\ pass'[i].pc = "saving"

\* How far a pass has come.
Stage(pc) ==
    CASE pc = "armed" -> 0 [] pc = "loading" -> 1 [] pc = "loaded" -> 2
      [] pc = "saving" -> 3 [] pc = "saved" -> 4 [] pc = "done" -> 5

\* C40: a reconciliation pass calls document.save() at most once, and a pass
\* whose document could not be loaded never calls it: save is called only by
\* a pass holding a loaded document, a pass never goes back to a stage before
\* the call, and the stored content changes only by the save of a pass.
C40_SaveAtMostOncePerPass ==
    [][(\A i \in DOMAIN pass :
           /\ SaveCalled(i) => pass[i].pc = "loaded"
           /\ pass'[i].pc # pass[i].pc => Stage(pass'[i].pc) > Stage(pass[i].pc)
           /\ (pass[i].pc = "loading" /\ pass'[i].pc # "loading") =>
                  pass'[i].pc \in {"loaded", "done"})
       /\ (dbContent' # dbContent =>
               \E i \in DOMAIN pass : pass[i].pc = "saving" /\ pass'[i].pc = "saved")]_vars

\* Both passes have ended without a save: each found operations queued and no
\* document, so the queue still holds both operations and the stored content
\* is the initial one.
C40_Witness ==
    /\ DOMAIN pass = 1..2
    /\ \A i \in DOMAIN pass :
           /\ pass[i].pc = "done"
           /\ ~pass[i].success /\ ~pass[i].error /\ ~pass[i].threw
    /\ Len(QueueOf("d1")) = 2
    /\ dbContent["d1"] = InitialContent

====
